---- MODULE Spec2Model ----
(***************************************************************************)
(* Tournament rating propagation of main.py: process_tournament loads the  *)
(* round columns of the results table, runs process_round once per round   *)
(* column and writes the two output tables with save_player_stats.         *)
(*                                                                         *)
(* Strings are sequences of one-character strings, so that indexing,       *)
(* slicing, startswith and int() are the operations the code performs.     *)
(* Skill (mu) and uncertainty (phi) are carried in half points, so that    *)
(* round() at output time is a real conversion (Python rounds a tie to the *)
(* even integer).  Display names are carried unchanged by the code and are *)
(* left out; volatility is carried in the Rating and left out of the       *)
(* output rows.                                                            *)
(***************************************************************************)
EXTENDS Integers, Sequences, FiniteSets, TLC

VARIABLES
    irregular,              \* input space: the round that may hold any column (0: none)
    fieldnames,             \* header row of the results file (reader.fieldnames)
    file_rows,              \* data rows of the results file: [ID, Rating], in table order
    player_results,         \* the rows as load_tournament_results returns them
    player_stats,           \* roster: player id -> Rating
    roster_order,           \* the keys of player_stats in the order of the lines of the roster file
    pc,                     \* position in process_tournament
    err,                    \* the exception that ended the run ("" when none)
    err_row,                \* the seat number of the row it was raised for (0: none)
    round_columns,          \* round column names, as load_tournament_results returns them
    player_lookup,          \* seat number -> player id
    initial_player_ratings, \* player id -> Rating column of the results table
    player_round_diffs,     \* player id -> (round column -> delta)
    rnd,                    \* number of rounds processed so far
    column,                 \* the cells of the last processed round column, one per row
    seen_players,           \* process_round's local set when the round ended
    calls,                  \* update() calls of that round, in order
    visited,                \* seat numbers of the rows of that round whose player was not seen yet
    ends,                   \* player_stats and player_round_diffs after the load and after each
                            \* round, with the cells of that round's column
    printed,                \* diagnostics written to stdout
    all_rows,               \* rows written to the full ratings table
    changed_rows            \* rows written to the changed-players table

vars == <<irregular, fieldnames, file_rows, player_results, player_stats, roster_order, pc, err, err_row,
          round_columns, player_lookup, initial_player_ratings, player_round_diffs, rnd,
          column, seen_players, calls, visited, ends, printed, all_rows, changed_rows>>

----------------------------------------------------------------------------
(* Bounds of the model.                                                    *)

\* seat numbers beyond the last row of the table that a cell may name
ExtraSeats == 1

\* longest header row of the results file, where the header row is the input
MaxHeaders == 3

----------------------------------------------------------------------------
(* Strings.                                                                *)

\* The characters of the model: those up to U+00FF. Among them the
\* superscripts one, two and three are digits that are no decimal digits.
Digits == <<"0", "1", "2", "3", "4", "5", "6", "7", "8", "9">>

\* digits that str.isdigit accepts and int() rejects
SuperscriptDigits == {"¹", "²", "³"}

\* the characters str.strip() removes: blank, tab, line feed, vertical tab,
\* form feed, carriage return, the separators U+001C to U+001F, next line
\* (U+0085) and the no-break space (U+00A0)
Whitespace == {" ", "\t", "\n", "", "\f", "\r", "", "", "", "",
               "", " "}

\* the characters int() ignores around the number: those of str.strip()
\* without the separators U+001C to U+001F
IntWhitespace == {" ", "\t", "\n", "", "\f", "\r", "", " "}

\* a decimal digit: what int() takes as a digit
IsDecimal(c) == \E d \in 1..10 : Digits[d] = c

\* str.isdigit of one character
IsDigit(c) == IsDecimal(c) \/ c \in SuperscriptDigits

DigitValue(c) == (CHOOSE d \in 1..10 : Digits[d] = c) - 1

RECURSIVE DigitsValue(_)
DigitsValue(s) ==
    IF s = <<>> THEN 0
    ELSE 10 * DigitsValue(SubSeq(s, 1, Len(s) - 1)) + DigitValue(s[Len(s)])

\* the digits of an int() literal: decimal digits, with single underscores
\* allowed between two digits
AllDigits(s) ==
    /\ s # <<>>
    /\ \A k \in 1..Len(s) :
          \/ IsDecimal(s[k])
          \/ s[k] = "_" /\ 1 < k /\ k < Len(s) /\ IsDecimal(s[k - 1]) /\ IsDecimal(s[k + 1])

\* the literal without its underscores
RECURSIVE DropUnderscores(_)
DropUnderscores(s) ==
    IF s = <<>> THEN <<>>
    ELSE IF s[1] = "_" THEN DropUnderscores(Tail(s))
    ELSE <<s[1]>> \o DropUnderscores(Tail(s))

\* s without the characters of ws at both ends
RECURSIVE StripOf(_, _)
StripOf(s, ws) ==
    IF s = <<>> THEN s
    ELSE IF s[1] \in ws THEN StripOf(Tail(s), ws)
    ELSE IF s[Len(s)] \in ws THEN StripOf(SubSeq(s, 1, Len(s) - 1), ws)
    ELSE s

\* str.strip()
Strip(s) == StripOf(s, Whitespace)

\* int(s) of a string without blanks around it: [ok |-> FALSE] stands for ValueError
IntOfStripped(t) ==
    IF AllDigits(t) THEN [ok |-> TRUE, val |-> DigitsValue(DropUnderscores(t))]
    ELSE IF t # <<>> /\ t[1] = "-" /\ AllDigits(Tail(t))
        THEN [ok |-> TRUE, val |-> 0 - DigitsValue(DropUnderscores(Tail(t)))]
    ELSE IF t # <<>> /\ t[1] = "+" /\ AllDigits(Tail(t))
        THEN [ok |-> TRUE, val |-> DigitsValue(DropUnderscores(Tail(t)))]
    ELSE [ok |-> FALSE, val |-> 0]

\* int(s)
PyInt(s) == IntOfStripped(StripOf(s, IntWhitespace))

StartsWith(s, p) == Len(s) >= Len(p) /\ SubSeq(s, 1, Len(p)) = p

\* "".join(filter(str.isdigit, x))
RECURSIVE FilterDigits(_)
FilterDigits(s) ==
    IF s = <<>> THEN <<>>
    ELSE IF IsDigit(s[1]) THEN <<s[1]>> \o FilterDigits(Tail(s))
    ELSE FilterDigits(Tail(s))

RECURSIVE NatStr(_)
NatStr(n) == IF n < 10 THEN <<Digits[n + 1]>> ELSE NatStr(n \div 10) \o <<Digits[(n % 10) + 1]>>

----------------------------------------------------------------------------
(* load_tournament_results: the round columns.                             *)

Rnd == <<"R", "n", "d">>
RD == <<"R", "D">>
Round_ == <<"R", "o", "u", "n", "d", " ">>

IsRoundHeader(col) == StartsWith(col, Rnd) \/ StartsWith(col, RD) \/ StartsWith(col, Round_)

\* the loop over reader.fieldnames: the stripped headers that match a prefix
RECURSIVE CollectRoundColumns(_)
CollectRoundColumns(names) ==
    IF names = <<>> THEN <<>>
    ELSE LET col == Strip(names[1]) IN
         IF names[1] # <<>> /\ IsRoundHeader(col)
             THEN <<col>> \o CollectRoundColumns(Tail(names))
             ELSE CollectRoundColumns(Tail(names))

\* a removal that drops every occurrence
RECURSIVE RemoveFirst_All(_, _)
RemoveFirst_All(s, x) ==
    IF s = <<>> THEN <<>>
    ELSE IF s[1] = x THEN RemoveFirst_All(Tail(s), x)
    ELSE <<s[1]>> \o RemoveFirst_All(Tail(s), x)

\* list.remove(x): drops the first occurrence
RECURSIVE RemoveFirst(_, _)
RemoveFirst(s, x) ==
    IF s = <<>> THEN <<>>
    ELSE IF s[1] = x THEN Tail(s)
    ELSE <<s[1]>> \o RemoveFirst(Tail(s), x)

Contains(s, x) == \E k \in 1..Len(s) : s[k] = x

\* the sort key: int("".join(filter(str.isdigit, x)))
SortKey(x) == PyInt(FilterDigits(x))

\* a < b for two strings of digits, compared as strings
RECURSIVE LexLess(_, _)
LexLess(a, b) ==
    IF b = <<>> THEN FALSE
    ELSE IF a = <<>> THEN TRUE
    ELSE IF a[1] # b[1] THEN DigitValue(a[1]) < DigitValue(b[1])
    ELSE LexLess(Tail(a), Tail(b))

\* the insertion of a sort that compares the digits as strings
RECURSIVE InsertByKey_Lexical(_, _)
InsertByKey_Lexical(s, x) ==
    IF s = <<>> THEN <<x>>
    ELSE IF LexLess(FilterDigits(x), FilterDigits(s[1])) THEN <<x>> \o s
    ELSE <<s[1]>> \o InsertByKey_Lexical(Tail(s), x)

\* list.sort(key=...) is stable: an element goes after the elements whose key
\* is not larger
RECURSIVE InsertByKey(_, _)
InsertByKey(s, x) ==
    IF s = <<>> THEN <<x>>
    ELSE IF SortKey(x).val < SortKey(s[1]).val THEN <<x>> \o s
    ELSE <<s[1]>> \o InsertByKey(Tail(s), x)

RECURSIVE SortByKey(_)
SortByKey(s) ==
    IF s = <<>> THEN <<>>
    ELSE InsertByKey(SortByKey(SubSeq(s, 1, Len(s) - 1)), s[Len(s)])

\* [ok |-> FALSE] stands for the ValueError of a key without digits
LoadRoundColumns(names) ==
    LET found == CollectRoundColumns(names)
        kept == IF Contains(found, RD) THEN RemoveFirst(found, RD) ELSE found
    IN  IF \A k \in 1..Len(kept) : SortKey(kept[k]).ok
            THEN [ok |-> TRUE, cols |-> SortByKey(kept)]
            ELSE [ok |-> FALSE, cols |-> <<>>]

\* cleaned_row["Number"] = i + 1
NumberRows(rows) == [k \in 1..Len(rows) |-> [ID |-> rows[k].ID, Rating |-> rows[k].Rating, Number |-> k]]

SeqRange(s) == {s[k] : k \in 1..Len(s)}

RowIds(rows) == {rows[k].ID : k \in 1..Len(rows)}

\* a lookup under the player ids themselves, so that a token names an id
BuildLookup_ById(rows) == [n \in {rows[k].ID : k \in 1..Len(rows)} |-> n]

\* {player["Number"]: player["ID"] for player in player_results}
BuildLookup(rows) == [n \in {rows[k].Number : k \in 1..Len(rows)} |->
                         rows[CHOOSE k \in 1..Len(rows) : rows[k].Number = n].ID]

\* {player["ID"]: player["Rating"] ...}: a later row of the same ID overwrites
LastRowOf(rows, id) == CHOOSE k \in 1..Len(rows) :
                          rows[k].ID = id /\ \A j \in (k + 1)..Len(rows) : rows[j].ID # id

BuildInitialRatings(rows) == [id \in RowIds(rows) |-> rows[LastRowOf(rows, id)].Rating]

\* {player["ID"]: {rc: 0 for rc in round_columns} ...}
BuildDiffs(rows, cols) == [id \in RowIds(rows) |-> [rc \in SeqRange(cols) |-> 0]]

----------------------------------------------------------------------------
(* parse_round_result and update.                                          *)

TokH == <<"-", "H", "-">>
TokU == <<"-", "U", "-">>
TokB == <<"-", "B", "-">>

\* result[0] and int(result[1:]) of a cell that is no sentinel
ParseGame(result_type, number) ==
    IF number.ok
        THEN [err |-> "", result_type |-> result_type, opponent_number |-> number.val]
        ELSE [err |-> "ValueError", result_type |-> result_type, opponent_number |-> 0]

\* parse_round_result without the -B- sentinel
parse_round_result_NoBye(result) ==
    IF result = TokH \/ result = TokU
        THEN [err |-> "", result_type |-> "X", opponent_number |-> 0 - 1]
    ELSE IF result = <<>>
        THEN [err |-> "IndexError", result_type |-> "", opponent_number |-> 0]
    ELSE ParseGame(result[1], PyInt(Tail(result)))

\* err is "" or the exception raised
parse_round_result(result) ==
    IF result = TokH \/ result = TokU \/ result = TokB
        THEN [err |-> "", result_type |-> "X", opponent_number |-> 0 - 1]
    ELSE IF result = <<>>
        THEN [err |-> "IndexError", result_type |-> "", opponent_number |-> 0]
    ELSE ParseGame(result[1], PyInt(Tail(result)))

\* The external rating function glicko2.rate_1vs1(first, second, drawn): with
\* drawn false the first argument is the winner.  A deterministic stand-in:
\* the winner gains and the loser loses, more so when the winner was not the
\* higher rated; a draw moves the two skills half a point towards each
\* other; both uncertainties shrink down to a floor.
Shrink(phi) == IF phi > 398 THEN phi - 1 ELSE phi

rate_1vs1(first, second, drawn) ==
    LET step == IF first.mu <= second.mu THEN 3 ELSE 1
        pull == IF first.mu < second.mu THEN 1 ELSE IF first.mu > second.mu THEN 0 - 1 ELSE 0
    IN  IF drawn
        THEN << [mu |-> first.mu + pull, phi |-> Shrink(first.phi), sigma |-> first.sigma],
                [mu |-> second.mu - pull, phi |-> Shrink(second.phi), sigma |-> second.sigma] >>
        ELSE << [mu |-> first.mu + step, phi |-> Shrink(first.phi), sigma |-> first.sigma],
                [mu |-> second.mu - step - 1, phi |-> Shrink(second.phi), sigma |-> second.sigma] >>

\* what update() returns: the pair, in the order (p1, p2), the arguments handed
\* to rate_1vs1 (none for an invalid result) and whether the error was printed
Rated(first, second, drawn, swapped, r) ==
    [p1 |-> IF swapped THEN r[2] ELSE r[1],
     p2 |-> IF swapped THEN r[1] ELSE r[2],
     rated |-> <<[first |-> first, second |-> second, drawn |-> drawn]>>,
     invalid |-> FALSE]

\* update() with the pair of a loss handed back in the order rate_1vs1 returned it
update_Unswapped(p1, p2, result) ==
    IF result = "W" THEN Rated(p1, p2, FALSE, FALSE, rate_1vs1(p1, p2, FALSE))
    ELSE IF result = "L" THEN Rated(p2, p1, FALSE, FALSE, rate_1vs1(p2, p1, FALSE))
    ELSE IF result = "D" THEN Rated(p1, p2, TRUE, FALSE, rate_1vs1(p1, p2, TRUE))
    ELSE [p1 |-> p1, p2 |-> p2, rated |-> <<>>, invalid |-> TRUE]

update(p1, p2, result) ==
    IF result = "W" THEN Rated(p1, p2, FALSE, FALSE, rate_1vs1(p1, p2, FALSE))
    ELSE IF result = "L" THEN Rated(p2, p1, FALSE, TRUE, rate_1vs1(p2, p1, FALSE))
    ELSE IF result = "D" THEN Rated(p1, p2, TRUE, FALSE, rate_1vs1(p1, p2, TRUE))
    ELSE [p1 |-> p1, p2 |-> p2, rated |-> <<>>, invalid |-> TRUE]

\* round(x) of a value carried in half points: a tie goes to the even integer
PyRound(h) ==
    LET q == h \div 2 IN
    IF h % 2 = 0 THEN q ELSE IF q % 2 = 0 THEN q ELSE q + 1

----------------------------------------------------------------------------
(* process_round.                                                          *)

\* The call's local state is s = [stats, diffs, seen, calls, visited, printed,
\* err, err_row]; calls and visited record what the call did.

Raise(s, player, exception) == [s EXCEPT !.err = exception, !.err_row = player.Number]

\* Record that also widens the uncertainty of every player not in the game
Record_IdleDecay(s, player, result_type, p2_id, p1_rating, p2_rating, u, round_column) ==
    [s EXCEPT
        !.calls = Append(@, [number |-> player.Number, p1_id |-> player.ID, p2_id |-> p2_id,
                             result |-> result_type,
                             p1_rating |-> p1_rating, p2_rating |-> p2_rating,
                             rated |-> u.rated, p1_updated |-> u.p1, p2_updated |-> u.p2]),
        !.printed = IF u.invalid
                        THEN Append(@, [msg |-> "Invalid game result", what |-> <<result_type>>])
                        ELSE @,
        !.diffs = [[@ EXCEPT ![player.ID][round_column] = u.p1.mu - p1_rating.mu]
                      EXCEPT ![p2_id][round_column] = u.p2.mu - p2_rating.mu],
        !.stats = [id \in DOMAIN s.stats |->
                      IF id = p2_id THEN u.p2
                      ELSE IF id = player.ID THEN u.p1
                      ELSE [s.stats[id] EXCEPT !.phi = @ + 1]]]

\* Record with the deltas kept in whole points
Record_WholePoints(s, player, result_type, p2_id, p1_rating, p2_rating, u, round_column) ==
    [s EXCEPT
        !.calls = Append(@, [number |-> player.Number, p1_id |-> player.ID, p2_id |-> p2_id,
                             result |-> result_type,
                             p1_rating |-> p1_rating, p2_rating |-> p2_rating,
                             rated |-> u.rated, p1_updated |-> u.p1, p2_updated |-> u.p2]),
        !.printed = IF u.invalid
                        THEN Append(@, [msg |-> "Invalid game result", what |-> <<result_type>>])
                        ELSE @,
        !.diffs = [[@ EXCEPT ![player.ID][round_column] = 2 * PyRound(u.p1.mu - p1_rating.mu)]
                      EXCEPT ![p2_id][round_column] = 2 * PyRound(u.p2.mu - p2_rating.mu)],
        !.stats = [[@ EXCEPT ![player.ID] = u.p1] EXCEPT ![p2_id] = u.p2]]

\* Record with the opponent's delta taken as the opposite of the player's
Record_ZeroSum(s, player, result_type, p2_id, p1_rating, p2_rating, u, round_column) ==
    [s EXCEPT
        !.calls = Append(@, [number |-> player.Number, p1_id |-> player.ID, p2_id |-> p2_id,
                             result |-> result_type,
                             p1_rating |-> p1_rating, p2_rating |-> p2_rating,
                             rated |-> u.rated, p1_updated |-> u.p1, p2_updated |-> u.p2]),
        !.printed = IF u.invalid
                        THEN Append(@, [msg |-> "Invalid game result", what |-> <<result_type>>])
                        ELSE @,
        !.diffs = [[@ EXCEPT ![player.ID][round_column] = u.p1.mu - p1_rating.mu]
                      EXCEPT ![p2_id][round_column] = 0 - (u.p1.mu - p1_rating.mu)],
        !.stats = [[@ EXCEPT ![player.ID] = u.p1] EXCEPT ![p2_id] = u.p2]]

\* the two diffs and the two roster entries written after update() returned u
Record(s, player, result_type, p2_id, p1_rating, p2_rating, u, round_column) ==
    [s EXCEPT
        !.calls = Append(@, [number |-> player.Number, p1_id |-> player.ID, p2_id |-> p2_id,
                             result |-> result_type,
                             p1_rating |-> p1_rating, p2_rating |-> p2_rating,
                             rated |-> u.rated, p1_updated |-> u.p1, p2_updated |-> u.p2]),
        !.printed = IF u.invalid
                        THEN Append(@, [msg |-> "Invalid game result", what |-> <<result_type>>])
                        ELSE @,
        !.diffs = [[@ EXCEPT ![player.ID][round_column] = u.p1.mu - p1_rating.mu]
                      EXCEPT ![p2_id][round_column] = u.p2.mu - p2_rating.mu],
        !.stats = [[@ EXCEPT ![player.ID] = u.p1] EXCEPT ![p2_id] = u.p2]]

\* Play that reports an opponent the roster lacks and goes on to the next row
Play_Lenient(s, player, result_type, p2_id, round_column) ==
    IF p2_id \notin DOMAIN s.stats
        THEN [s EXCEPT !.seen = @ \cup {p2_id},
                       !.printed = Append(@, [msg |-> "Player not found", what |-> <<>>])]
        ELSE Record([s EXCEPT !.seen = @ \cup {p2_id}], player, result_type, p2_id,
                    s.stats[player.ID], s.stats[p2_id],
                    update(s.stats[player.ID], s.stats[p2_id], result_type), round_column)

\* Play that marks the row's player in place of the opponent
Play_MarkedSelf(s, player, result_type, p2_id, round_column) ==
    IF p2_id \notin DOMAIN s.stats
        THEN Raise([s EXCEPT !.seen = @ \cup {player.ID}], player, "Exception")
        ELSE Record([s EXCEPT !.seen = @ \cup {player.ID}], player, result_type, p2_id,
                    s.stats[player.ID], s.stats[p2_id],
                    update(s.stats[player.ID], s.stats[p2_id], result_type), round_column)

\* Play without seen_players.add(p2_id)
Play_Unmarked(s, player, result_type, p2_id, round_column) ==
    IF p2_id \notin DOMAIN s.stats
        THEN Raise(s, player, "Exception")
        ELSE Record(s, player, result_type, p2_id,
                    s.stats[player.ID], s.stats[p2_id],
                    update(s.stats[player.ID], s.stats[p2_id], result_type), round_column)

\* the opponent is marked seen, looked up in the roster, and the game is rated
Play(s, player, result_type, p2_id, round_column) ==
    IF p2_id \notin DOMAIN s.stats
        THEN Raise([s EXCEPT !.seen = @ \cup {p2_id}], player, "Exception")
        ELSE Record([s EXCEPT !.seen = @ \cup {p2_id}], player, result_type, p2_id,
                    s.stats[player.ID], s.stats[p2_id],
                    update(s.stats[player.ID], s.stats[p2_id], result_type), round_column)

\* the row of a player not seen yet, its cell parsed
Resolve(s, player, parsed, round_column, lookup) ==
    IF parsed.err # "" THEN Raise(s, player, parsed.err)
    ELSE IF parsed.result_type = "X" THEN s
    ELSE IF player.ID \notin DOMAIN s.stats THEN Raise(s, player, "Exception")
    ELSE IF parsed.opponent_number \notin DOMAIN lookup THEN Raise(s, player, "KeyError")
    ELSE Play(s, player, parsed.result_type, lookup[parsed.opponent_number], round_column)

\* ProcessRow that parses the cell before it tests seen_players
ProcessRow_ParsedFirst(s, player, tok, round_column, lookup) ==
    IF parse_round_result(tok).err # "" THEN Raise(s, player, parse_round_result(tok).err)
    ELSE IF player.ID \in s.seen THEN s
    ELSE Resolve([s EXCEPT !.seen = @ \cup {player.ID}, !.visited = @ \cup {player.Number}],
                 player, parse_round_result(tok), round_column, lookup)

\* ProcessRow without the test of seen_players
ProcessRow_Unchecked(s, player, tok, round_column, lookup) ==
    Resolve([s EXCEPT !.seen = @ \cup {player.ID}, !.visited = @ \cup {player.Number}],
            player, parse_round_result(tok), round_column, lookup)

\* one iteration of the loop over player_results; tok is player[round_column]
ProcessRow(s, player, tok, round_column, lookup) ==
    IF player.ID \in s.seen THEN s
    ELSE Resolve([s EXCEPT !.seen = @ \cup {player.ID}, !.visited = @ \cup {player.Number}],
                 player, parse_round_result(tok), round_column, lookup)

\* the loop from row k on; an exception ends it
RECURSIVE ProcessRows(_, _, _, _, _, _)
ProcessRows(s, rows, col, round_column, lookup, k) ==
    IF k > Len(rows) \/ s.err # "" THEN s
    ELSE ProcessRows(ProcessRow(s, rows[k], col[k], round_column, lookup),
                     rows, col, round_column, lookup, k + 1)

\* process_round started from default ratings instead of the roster it is handed
process_round_Stale(rows, stats, lookup, diffs, round_column, col, out) ==
    ProcessRows([stats |-> [id \in DOMAIN stats |-> [mu |-> 3000, phi |-> 400, sigma |-> 6]],
                 diffs |-> diffs, seen |-> {}, calls |-> <<>>, visited |-> {},
                 printed |-> out, err |-> "", err_row |-> 0],
                rows, col, round_column, lookup, 1)

\* process_round that goes on with the set the round before left
process_round_Carried(rows, stats, lookup, diffs, round_column, col, out) ==
    ProcessRows([stats |-> stats, diffs |-> diffs, seen |-> seen_players, calls |-> <<>>,
                 visited |-> {}, printed |-> out, err |-> "", err_row |-> 0],
                rows, col, round_column, lookup, 1)

process_round(rows, stats, lookup, diffs, round_column, col, out) ==
    ProcessRows([stats |-> stats, diffs |-> diffs, seen |-> {}, calls |-> <<>>, visited |-> {},
                 printed |-> out, err |-> "", err_row |-> 0],
                rows, col, round_column, lookup, 1)

----------------------------------------------------------------------------
(* save_player_stats.                                                      *)

\* the keys of a dict built from the rows, in insertion order
RECURSIVE FirstIds(_, _)
FirstIds(rows, done) ==
    IF rows = <<>> THEN <<>>
    ELSE IF rows[1].ID \in done THEN FirstIds(Tail(rows), done)
    ELSE <<rows[1].ID>> \o FirstIds(Tail(rows), done \cup {rows[1].ID})

\* the distinct round columns, in order (the keys of a player's diffs)
RECURSIVE Distinct(_, _)
Distinct(s, done) ==
    IF s = <<>> THEN <<>>
    ELSE IF s[1] \in done THEN Distinct(Tail(s), done)
    ELSE <<s[1]>> \o Distinct(Tail(s), done \cup {s[1]})

AllPlayersRow(id, rating) == [ID |-> id, Rating |-> PyRound(rating.mu), RD |-> PyRound(rating.phi)]

\* the loop over results.items(): a dict lists its keys in the order they were
\* first inserted, which for the roster is the order of the lines of its file
AllPlayersRows(order, results) ==
    [k \in 1..Len(order) |-> AllPlayersRow(order[k], results[order[k]])]

\* the gain taken from the skill cut to whole points instead of rounded
OverallGain_Truncated(rating, initial) == (rating.mu \div 2) - initial

OverallGain(rating, initial) == PyRound(rating.mu) - initial

ChangedPlayersRow(id, rating, player_diff, cols, initial) ==
    [ID |-> id, Rating |-> PyRound(rating.mu), RD |-> PyRound(rating.phi),
     diffs |-> [k \in 1..Len(cols) |-> PyRound(player_diff[cols[k]])],
     gain |-> OverallGain(rating, initial)]

\* the loop over initial_player_ratings: results[_id] raises KeyError for an
\* id the roster lacks, and the rows before it are already written
RECURSIVE ChangedRows(_, _, _, _, _)
ChangedRows(ids, results, diffs, cols, initial) ==
    IF ids = <<>> THEN [rows |-> <<>>, err |-> ""]
    ELSE IF ids[1] \notin DOMAIN results THEN [rows |-> <<>>, err |-> "KeyError"]
    ELSE LET rest == ChangedRows(Tail(ids), results, diffs, cols, initial)
         IN  [rows |-> <<ChangedPlayersRow(ids[1], results[ids[1]], diffs[ids[1]], cols, initial[ids[1]])>>
                          \o rest.rows,
              err |-> rest.err]

----------------------------------------------------------------------------
(* The inputs: the roster, the results file and its round columns.         *)

Str_ID == <<"I", "D">>
Str_Name == <<"N", "a", "m", "e">>
Str_Rating == <<"R", "a", "t", "i", "n", "g">>

RoundHeader(n) == Rnd \o NatStr(n)

\* reader.fieldnames of a file without any line: None, written as a header
\* row that no file has (its one name is not made of characters)
None == <<<<"None">>>>

\* the header row of the results file; it does not list the rounds in order
FileHeaders == <<Str_ID, Str_Name, Str_Rating, RD, RoundHeader(10), RoundHeader(2)>>

\* roster ratings as load_player_stats builds them: whole points, here in halves
RosterRating(id) ==
    [mu |-> 2 * (IF id = 3 THEN 1520 ELSE IF id = 4 THEN 1480 ELSE 1500), phi |-> 400, sigma |-> 6]

\* the ID column of the results file and the ids of the roster: a roster
\* player without a row, a row whose player the roster lacks, two rows of
\* one player
Inputs == {[ids |-> <<1, 2, 3>>, roster |-> <<3, 1, 2, 4>>],
           [ids |-> <<1, 2, 3>>, roster |-> <<2, 1, 4>>],
           [ids |-> <<1, 2, 1>>, roster |-> <<1, 2, 3, 4>>]}

RowCount == Len((CHOOSE in \in Inputs : TRUE).ids)

\* tables of one row more, in which a round can hold two games: one row per
\* player, and two rows of one player
WideInputs == {[ids |-> <<1, 2, 3, 4>>, roster |-> <<4, 2, 1, 3>>],
               [ids |-> <<1, 2, 1, 3>>, roster |-> <<1, 2, 3, 4>>]}

RoundCount == Len(LoadRoundColumns(FileHeaders).cols)

\* the Rating column of the results file need not agree with the roster
FileRating(k) == IF k = 1 THEN 1500 ELSE 1490 + k

FileRows(ids) == [k \in 1..Len(ids) |-> [ID |-> ids[k], Rating |-> FileRating(k)]]

Seats == 1..(RowCount + ExtraSeats)

Sentinels == {TokH, TokU, TokB}

GameTokens == {<<t>> \o NatStr(n) : t \in {"W", "L", "D"}, n \in Seats}

OddTokens == {<<"Z", "2">>, <<>>, <<"-", "X", "-">>}

Tokens == Sentinels \cup GameTokens \cup OddTokens

Mirror(t) == IF t = "W" THEN "L" ELSE IF t = "L" THEN "W" ELSE t

\* the cell of row k names a game that row n mirrors
Mirrored(col, k, parsed) ==
    /\ parsed.err = ""
    /\ parsed.result_type \in {"W", "L", "D"}
    /\ parsed.opponent_number \in 1..Len(col)
    /\ parsed.opponent_number # k
    /\ col[parsed.opponent_number] = <<Mirror(parsed.result_type)>> \o NatStr(k)

\* a column in which every game stands in both players' rows, mirrored, and
\* every other cell is a bye
Consistent(col) ==
    \A k \in 1..Len(col) : col[k] \in Sentinels \/ Mirrored(col, k, parse_round_result(col[k]))

\* the columns of one game between rows a and b, and the column of byes
GameColumn(a, b, t) ==
    [k \in 1..RowCount |-> IF k = a THEN <<t>> \o NatStr(b)
                           ELSE IF k = b THEN <<Mirror(t)>> \o NatStr(a)
                           ELSE TokB]

RegularColumns ==
    {[k \in 1..RowCount |-> TokB]} \cup
    {GameColumn(g[1], g[2], t) : g \in {h \in (1..RowCount) \X (1..RowCount) : h[1] < h[2]},
                                 t \in {"W", "L", "D"}}

AnyColumns == [1..RowCount -> Tokens]

Columns(any) == IF any THEN AnyColumns ELSE RegularColumns

\* the games a column of n rows can hold: row g[1] against row g[2] with
\* result g[3] in the first one's cell
Games(n) == {g \in (1..n) \X (1..n) \X {"W", "L", "D"} : g[1] < g[2]}

\* the column of n rows that holds the games gs (no row in two of them),
\* each in both rows, and byes elsewhere
GamesColumn(n, gs) ==
    [k \in 1..n |->
        IF \E g \in gs : g[1] = k
            THEN LET g == CHOOSE g \in gs : g[1] = k IN <<g[3]>> \o NatStr(g[2])
        ELSE IF \E g \in gs : g[2] = k
            THEN LET g == CHOOSE g \in gs : g[2] = k IN <<Mirror(g[3])>> \o NatStr(g[1])
        ELSE TokB]

\* the columns of n rows with no game, one game or two games
PairedColumns(n) ==
    {GamesColumn(n, {})} \cup {GamesColumn(n, {g}) : g \in Games(n)} \cup
    {GamesColumn(n, {p[1], p[2]}) :
        p \in {q \in Games(n) \X Games(n) : {q[1][1], q[1][2]} \cap {q[2][1], q[2][2]} = {}}}

\* the cells of a round column of a table of n rows
TableColumns(n, any) == IF n = RowCount THEN Columns(any) ELSE PairedColumns(n)

----------------------------------------------------------------------------
(* process_tournament.                                                     *)

Init ==
    /\ fieldnames = FileHeaders
    /\ \E in \in Inputs \cup WideInputs :
          /\ irregular \in (IF in \in Inputs THEN 1..RoundCount ELSE {0})
          /\ file_rows = FileRows(in.ids)
          /\ roster_order = in.roster
          /\ player_stats = [id \in SeqRange(in.roster) |-> RosterRating(id)]
    /\ pc = "load"
    /\ err = ""
    /\ err_row = 0
    /\ player_results = <<>>
    /\ round_columns = <<>>
    /\ player_lookup = <<>>
    /\ initial_player_ratings = <<>>
    /\ player_round_diffs = <<>>
    /\ rnd = 0
    /\ column = <<>>
    /\ seen_players = {}
    /\ calls = <<>>
    /\ visited = {}
    /\ ends = <<>>
    /\ printed = <<>>
    /\ all_rows = <<>>
    /\ changed_rows = <<>>

\* a column of that name: a row has the key k.strip() for each non-blank header
HasColumn(names, name) == names # None /\ \E k \in 1..Len(names) : Strip(names[k]) = name

\* the exception that ends load_tournament_results ("" when none): no header
\* row (reader.fieldnames is None or empty); a sort key that is no number;
\* with a data row, cleaned_row["Rating"] of a file without that column
LoadError(names, rows, r) ==
    IF names = None \/ names = <<>> THEN "ValueError"
    ELSE IF ~r.ok THEN "ValueError"
    ELSE IF rows # <<>> /\ ~HasColumn(names, Str_Rating) THEN "KeyError"
    ELSE ""

\* the rows load_tournament_results returns: a row has the key ID when the
\* file has that column
CleanedRows(names, rows) ==
    IF HasColumn(names, Str_ID) THEN NumberRows(rows)
    ELSE [k \in 1..Len(rows) |-> [Rating |-> rows[k].Rating, Number |-> k]]

\* the exception that ends the building of the three tables ("" when none):
\* player["ID"] of a row without that key
TablesError(names, rows) ==
    IF rows # <<>> /\ ~HasColumn(names, Str_ID) THEN "KeyError" ELSE ""

\* the exception that ends the load in process_tournament ("" when none)
ProcessLoadError(names, rows, r) ==
    IF LoadError(names, rows, r) # "" THEN LoadError(names, rows, r) ELSE TablesError(names, rows)

\* load_tournament_results on its own
LoadResults ==
    /\ pc = "load"
    /\ LET r == LoadRoundColumns(fieldnames)
       IN  IF LoadError(fieldnames, file_rows, r) = ""
           THEN /\ player_results' = CleanedRows(fieldnames, file_rows)
                /\ round_columns' = r.cols
                /\ pc' = "returned"
                /\ err' = ""
           ELSE /\ pc' = "failed"
                /\ err' = LoadError(fieldnames, file_rows, r)
                /\ UNCHANGED <<player_results, round_columns>>
    /\ UNCHANGED <<irregular, roster_order, fieldnames, file_rows, player_stats, err_row, rnd, column,
                   seen_players, calls, visited, printed, all_rows, changed_rows,
                   player_lookup, initial_player_ratings, player_round_diffs, ends>>

\* load_tournament_results and the three tables built from its rows
Load ==
    /\ pc = "load"
    /\ LET r == LoadRoundColumns(fieldnames)
           rows == CleanedRows(fieldnames, file_rows)
       IN  IF ProcessLoadError(fieldnames, file_rows, r) = ""
           THEN /\ player_results' = rows
                /\ round_columns' = r.cols
                /\ player_lookup' = BuildLookup(rows)
                /\ initial_player_ratings' = BuildInitialRatings(rows)
                /\ player_round_diffs' = BuildDiffs(rows, r.cols)
                /\ ends' = <<[stats |-> player_stats, diffs |-> BuildDiffs(rows, r.cols),
                              column |-> <<>>]>>
                /\ pc' = "loop"
                /\ err' = ""
           ELSE /\ pc' = "failed"
                /\ err' = ProcessLoadError(fieldnames, file_rows, r)
                /\ UNCHANGED <<player_results, round_columns, player_lookup,
                               initial_player_ratings, player_round_diffs, ends>>
    /\ UNCHANGED <<irregular, roster_order, fieldnames, file_rows, player_stats, err_row, rnd, column,
                   seen_players, calls, visited, printed, all_rows, changed_rows>>

\* one pass of the loop over round_columns: the cells of the round column are
\* read by this call of process_round only, and are drawn here
ProcessRound ==
    /\ pc = "loop"
    /\ rnd < Len(round_columns)
    /\ \E col \in TableColumns(Len(player_results), rnd + 1 = irregular) :
       \E s \in {process_round(player_results, player_stats, player_lookup, player_round_diffs,
                               round_columns[rnd + 1], col,
                               Append(printed, [msg |-> "Processing round",
                                                what |-> round_columns[rnd + 1]]))} :
             /\ column' = col
             /\ ends' = Append(ends, [stats |-> s.stats, diffs |-> s.diffs, column |-> col])
             /\ visited' = s.visited
             /\ err_row' = s.err_row
             /\ player_stats' = s.stats
             /\ player_round_diffs' = s.diffs
             /\ seen_players' = s.seen
             /\ calls' = s.calls
             /\ printed' = s.printed
             /\ err' = s.err
             /\ pc' = IF s.err = "" THEN "loop" ELSE "failed"
    /\ rnd' = rnd + 1
    /\ UNCHANGED <<irregular, roster_order, fieldnames, file_rows, player_results, round_columns, player_lookup,
                   initial_player_ratings, all_rows, changed_rows>>

\* save_player_stats, once every round is processed
Save ==
    /\ pc = "loop"
    /\ rnd = Len(round_columns)
    /\ all_rows' = AllPlayersRows(roster_order, player_stats)
    /\ IF player_round_diffs = <<>>
       THEN /\ changed_rows' = <<>>
            /\ err' = "StopIteration"
            /\ pc' = "failed"
            /\ printed' = Append(printed, [msg |-> "Full ratings written", what |-> <<>>])
       ELSE \E c \in {ChangedRows(FirstIds(player_results, {}), player_stats, player_round_diffs,
                                  Distinct(round_columns, {}), initial_player_ratings)} :
                /\ changed_rows' = c.rows
                /\ err' = c.err
                /\ pc' = IF c.err = "" THEN "done" ELSE "failed"
                /\ printed' =
                      IF c.err = ""
                      THEN printed \o <<[msg |-> "Full ratings written", what |-> <<>>],
                                        [msg |-> "Updated ratings written", what |-> <<>>]>>
                      ELSE Append(printed, [msg |-> "Full ratings written", what |-> <<>>])
    /\ UNCHANGED <<irregular, roster_order, fieldnames, file_rows, player_results, player_stats, err_row,
                   round_columns, player_lookup, initial_player_ratings, player_round_diffs,
                   rnd, column, seen_players, calls, visited, ends>>

Next == Load \/ ProcessRound \/ Save

Spec == Init /\ [][Next]_vars

----------------------------------------------------------------------------
(* load_tournament_results on its own: the header row is the input.        *)

\* names of further columns: no round column, the rating deviation, rounds
\* under each prefix, a name with a blank behind it, a round prefix without a
\* digit and one whose digits are no number
HeaderNames == {Str_Name, RD, RoundHeader(1), RoundHeader(2), RoundHeader(10),
                Round_ \o NatStr(3), RD \o NatStr(4), Rnd,
                RoundHeader(2) \o <<" ">>, RoundHeader(1) \o <<"²">>}

HeaderRows == UNION {[1..n -> HeaderNames] : n \in 0..MaxHeaders}

\* the header rows of the results file: none (an empty file, which has no
\* data rows either), an empty one (a blank first line), the ID and Rating
\* columns followed by further columns, a file that lacks the Rating column
\* and one that lacks the ID column
LoadHeaderRows ==
    {None, <<>>} \cup {<<Str_ID, Str_Rating>> \o h : h \in HeaderRows}
                 \cup {<<Str_ID>> \o h : h \in [1..1 -> HeaderNames]}
                 \cup {<<Str_Rating>> \o h : h \in [1..1 -> HeaderNames]}

InitLoad ==
    /\ irregular = 1
    /\ fieldnames \in LoadHeaderRows
    /\ file_rows \in (IF fieldnames = None THEN {<<>>}
                       ELSE IF fieldnames = <<>> THEN {<<>>, FileRows(<<1, 2, 3>>)}
                       ELSE {FileRows(<<1, 2, 3>>)})
    /\ roster_order = <<1, 2, 3, 4>>
    /\ player_stats = [id \in {1, 2, 3, 4} |-> RosterRating(id)]
    /\ pc = "load"
    /\ err = ""
    /\ err_row = 0
    /\ player_results = <<>>
    /\ round_columns = <<>>
    /\ player_lookup = <<>>
    /\ initial_player_ratings = <<>>
    /\ player_round_diffs = <<>>
    /\ rnd = 0
    /\ column = <<>>
    /\ seen_players = {}
    /\ calls = <<>>
    /\ visited = {}
    /\ ends = <<>>
    /\ printed = <<>>
    /\ all_rows = <<>>
    /\ changed_rows = <<>>

NextLoad == LoadResults

SpecLoad == InitLoad /\ [][NextLoad]_vars

----------------------------------------------------------------------------
(* update.py: the variant of the engine without the seat lookup, the       *)
(* resolved set and the round deltas.  An outcome token names the          *)
(* opponent by player id; load_tournament_results finds the round columns  *)
(* with the same statements as main.py's.                                  *)

\* cleaned_row["ID"] = int(cleaned_row["ID"]): the rows carry no seat number
U_Rows(rows) == [k \in 1..Len(rows) |-> [ID |-> rows[k].ID, Rating |-> rows[k].Rating]]

\* update.py's parse_round_result: -B- is no sentinel here
U_parse_round_result(result) ==
    IF result = TokH \/ result = TokU
        THEN [err |-> "", result_type |-> "X", opponent_number |-> 0 - 1]
    ELSE IF result = <<>>
        THEN [err |-> "IndexError", result_type |-> "", opponent_number |-> 0]
    ELSE ParseGame(result[1], PyInt(Tail(result)))

\* update.py's update() has the statements of main.py's
U_update(p1, p2, result) ==
    IF result = "W" THEN Rated(p1, p2, FALSE, FALSE, rate_1vs1(p1, p2, FALSE))
    ELSE IF result = "L" THEN Rated(p2, p1, FALSE, TRUE, rate_1vs1(p2, p1, FALSE))
    ELSE IF result = "D" THEN Rated(p1, p2, TRUE, FALSE, rate_1vs1(p1, p2, TRUE))
    ELSE [p1 |-> p1, p2 |-> p2, rated |-> <<>>, invalid |-> TRUE]

\* the two roster entries written after update() returned u; k is the
\* position of the row in the table
U_Record(s, k, p1_id, result_type, p2_id, p1_rating, p2_rating, u) ==
    [s EXCEPT
        !.calls = Append(@, [number |-> k, p1_id |-> p1_id, p2_id |-> p2_id,
                             result |-> result_type,
                             p1_rating |-> p1_rating, p2_rating |-> p2_rating,
                             rated |-> u.rated, p1_updated |-> u.p1, p2_updated |-> u.p2]),
        !.printed = IF u.invalid
                        THEN Append(@, [msg |-> "Invalid game result", what |-> <<result_type>>])
                        ELSE @,
        !.stats = [[@ EXCEPT ![p1_id] = u.p1] EXCEPT ![p2_id] = u.p2]]

\* one iteration of the loop over player_results, the cell parsed: a row
\* whose player the roster lacks is reported and passed over; an opponent id
\* the roster lacks raises KeyError at player_stats[opponent_number]
U_ProcessRow(s, k, player, parsed) ==
    IF parsed.err # "" THEN [s EXCEPT !.err = parsed.err, !.err_row = k]
    ELSE IF parsed.result_type = "X" THEN s
    ELSE IF player.ID \notin DOMAIN s.stats
        THEN [s EXCEPT !.printed = Append(@, [msg |-> "Player not found", what |-> <<>>])]
    ELSE IF parsed.opponent_number \notin DOMAIN s.stats
        THEN [s EXCEPT !.err = "KeyError", !.err_row = k]
    ELSE U_Record(s, k, player.ID, parsed.result_type, parsed.opponent_number,
                  s.stats[player.ID], s.stats[parsed.opponent_number],
                  U_update(s.stats[player.ID], s.stats[parsed.opponent_number], parsed.result_type))

\* the loop from row k on; an exception ends it
RECURSIVE U_ProcessRows(_, _, _, _)
U_ProcessRows(s, rows, col, k) ==
    IF k > Len(rows) \/ s.err # "" THEN s
    ELSE U_ProcessRows(U_ProcessRow(s, k, rows[k], U_parse_round_result(col[k])), rows, col, k + 1)

\* update.py's process_round
U_process_round(rows, stats, col, out) ==
    U_ProcessRows([stats |-> stats, calls |-> <<>>, printed |-> out, err |-> "", err_row |-> 0],
                  rows, col, 1)

\* the regular columns of this variant: an idle row holds -H-
U_RegularColumns == {[k \in 1..RowCount |-> IF col[k] = TokB THEN TokH ELSE col[k]] : col \in RegularColumns}

U_Columns(any) == IF any THEN AnyColumns ELSE U_RegularColumns

\* the exception that ends update.py's load ("" when none): the loop over
\* the fieldnames of a file without any line (None), a sort key that is no
\* number, cleaned_row["ID"] of a file without that column (so of the rows
\* behind a blank first line)
U_LoadError(names, rows, r) ==
    IF names = None THEN "TypeError"
    ELSE IF ~r.ok THEN "ValueError"
    ELSE IF rows # <<>> /\ ~HasColumn(names, Str_ID) THEN "KeyError"
    ELSE ""

\* update.py's load_tournament_results
U_Load ==
    /\ pc = "load"
    /\ LET r == LoadRoundColumns(fieldnames)
       IN  IF U_LoadError(fieldnames, file_rows, r) = ""
           THEN /\ player_results' = U_Rows(file_rows)
                /\ round_columns' = r.cols
                /\ ends' = <<[stats |-> player_stats, diffs |-> <<>>, column |-> <<>>]>>
                /\ pc' = "loop"
                /\ err' = ""
           ELSE /\ pc' = "failed"
                /\ err' = U_LoadError(fieldnames, file_rows, r)
                /\ UNCHANGED <<player_results, round_columns, ends>>
    /\ UNCHANGED <<irregular, roster_order, fieldnames, file_rows, player_stats, err_row, player_lookup,
                   initial_player_ratings, player_round_diffs, rnd, column,
                   seen_players, calls, visited, printed, all_rows, changed_rows>>

\* one pass of the loop over round_columns in update.py's process_tournament
U_ProcessRound ==
    /\ pc = "loop"
    /\ rnd < Len(round_columns)
    /\ \E col \in U_Columns(rnd + 1 = irregular) :
       \E s \in {U_process_round(player_results, player_stats, col, printed)} :
             /\ column' = col
             /\ ends' = Append(ends, [stats |-> s.stats, diffs |-> <<>>, column |-> col])
             /\ err_row' = s.err_row
             /\ player_stats' = s.stats
             /\ calls' = s.calls
             /\ printed' = s.printed
             /\ err' = s.err
             /\ pc' = IF s.err = "" THEN "loop" ELSE "failed"
    /\ rnd' = rnd + 1
    /\ UNCHANGED <<irregular, roster_order, fieldnames, file_rows, player_results, round_columns, player_lookup,
                   initial_player_ratings, player_round_diffs, seen_players, visited,
                   all_rows, changed_rows>>

\* update.py's save_player_stats: one row per roster entry
U_Save ==
    /\ pc = "loop"
    /\ rnd = Len(round_columns)
    /\ all_rows' = AllPlayersRows(roster_order, player_stats)
    /\ printed' = Append(printed, [msg |-> "Updated ratings written", what |-> <<>>])
    /\ pc' = "done"
    /\ UNCHANGED <<irregular, roster_order, fieldnames, file_rows, player_results, player_stats, err, err_row,
                   round_columns, player_lookup, initial_player_ratings, player_round_diffs,
                   rnd, column, seen_players, calls, visited, ends, changed_rows>>

NextUpdate == U_Load \/ U_ProcessRound \/ U_Save

\* the results file of update.py: the table of Init, a file without any
\* line, a blank first line alone, or a blank first line before the rows
InitUpdate ==
    /\ irregular \in 1..RoundCount
    /\ fieldnames \in {FileHeaders, None, <<>>}
    /\ \E in \in Inputs :
          /\ file_rows \in (IF fieldnames = None THEN {<<>>}
                             ELSE IF fieldnames = <<>> THEN {<<>>, FileRows(in.ids)}
                             ELSE {FileRows(in.ids)})
          /\ roster_order = in.roster
          /\ player_stats = [id \in SeqRange(in.roster) |-> RosterRating(id)]
    /\ pc = "load"
    /\ err = ""
    /\ err_row = 0
    /\ player_results = <<>>
    /\ round_columns = <<>>
    /\ player_lookup = <<>>
    /\ initial_player_ratings = <<>>
    /\ player_round_diffs = <<>>
    /\ rnd = 0
    /\ column = <<>>
    /\ seen_players = {}
    /\ calls = <<>>
    /\ visited = {}
    /\ ends = <<>>
    /\ printed = <<>>
    /\ all_rows = <<>>
    /\ changed_rows = <<>>

SpecUpdate == InitUpdate /\ [][NextUpdate]_vars

----------------------------------------------------------------------------
(* Properties.  calls, visited, column, seen_players, err and err_row       *)
(* describe the round processed last; ends[rnd] is the roster that round    *)
(* started from and ends[rnd + 1] the roster it left.                       *)

Pair(c) == {c.p1_id, c.p2_id}

IsGameType(t) == t \in {"W", "L", "D"}

\* the cell is a win, loss or draw against seat n
NamesSeat(tok, n) ==
    /\ parse_round_result(tok).err = ""
    /\ IsGameType(parse_round_result(tok).result_type)
    /\ parse_round_result(tok).opponent_number = n

Involves(c, id) == c.p1_id = id \/ c.p2_id = id

\* what call c stored in the roster for id (the opponent's entry is stored last)
Stored(c, id) == IF c.p2_id = id THEN c.p2_updated ELSE c.p1_updated

\* the rating the roster holds for id when call j of the round starts
RECURSIVE RosterBefore(_, _, _, _)
RosterBefore(start, cs, j, id) ==
    IF j = 1 THEN start[id]
    ELSE IF Involves(cs[j - 1], id) THEN Stored(cs[j - 1], id)
    ELSE RosterBefore(start, cs, j - 1, id)

RECURSIVE RoundsPrinted(_)
RoundsPrinted(out) ==
    IF out = <<>> THEN <<>>
    ELSE IF out[1].msg = "Processing round" THEN <<out[1].what>> \o RoundsPrinted(Tail(out))
    ELSE RoundsPrinted(Tail(out))

\* a round that ended without an exception, over a table with one row per
\* player, in which every cell is a sentinel or a game against another row
WellFormedRound ==
    /\ rnd >= 1
    /\ err = ""
    /\ Cardinality(RowIds(player_results)) = Len(player_results)
    /\ \A k \in 1..Len(column) :
          \/ column[k] \in Sentinels
          \/ \E n \in 1..Len(column) : n # k /\ NamesSeat(column[k], n)

\* C1: within one round, update() is called at most once for any unordered
\* pair of players, however many rows of the round name the pairing.
C1_PairingOnce ==
    \A i, j \in 1..Len(calls) : i < j => Pair(calls[i]) # Pair(calls[j])

\* two rows of different players name each other and the pairing was rated
C1_Witness ==
    \E a, b \in 1..Len(column) :
        /\ a < b
        /\ NamesSeat(column[a], b)
        /\ NamesSeat(column[b], a)
        /\ player_results[a].ID # player_results[b].ID
        /\ \E i \in 1..Len(calls) :
              /\ calls[i].number = a
              /\ calls[i].p2_id = player_results[b].ID
              /\ calls[i].rated # <<>>

\* C2 as stated: every rating read while round k+1 is resolved is the rating
\* the roster held at the end of round k.
C2_Original ==
    (rnd >= 2 /\ WellFormedRound) =>
        \A j \in 1..Len(calls) :
            /\ calls[j].p1_rating = ends[rnd].stats[calls[j].p1_id]
            /\ calls[j].p2_rating = ends[rnd].stats[calls[j].p2_id]

\* C2 (amended): process_round runs once per round column, in the sorted
\* order, on the same roster; a rating read in round k+1 is the rating the
\* roster holds at that moment: the one stored at the end of round k, or, for
\* a player an earlier game of round k+1 involved, the one that game stored.
C2_RoundsInOrderOnCurrentRoster ==
    /\ RoundsPrinted(printed) = SubSeq(round_columns, 1, rnd)
    /\ \A i, j \in 1..Len(round_columns) :
          i < j => SortKey(round_columns[i]).val < SortKey(round_columns[j]).val
    /\ pc # "load" /\ round_columns # <<>> => Len(ends) = rnd + 1
    /\ rnd >= 1 =>
        \A j \in 1..Len(calls) :
            /\ calls[j].p1_rating = RosterBefore(ends[rnd].stats, calls, j, calls[j].p1_id)
            /\ calls[j].p2_rating = RosterBefore(ends[rnd].stats, calls, j, calls[j].p2_id)

\* the second round rates a player whose rating the first round changed
C2_Witness ==
    /\ rnd = 2
    /\ \E j \in 1..Len(calls) :
          /\ calls[j].rated # <<>>
          /\ ends[2].stats[calls[j].p1_id] # ends[1].stats[calls[j].p1_id]
          /\ calls[j].p1_rating = ends[2].stats[calls[j].p1_id]

\* C3: update() hands rate_1vs1 the arguments in the order the outcome asks
\* for: W as (P, O), L as (O, P) with the returned pair assigned back as
\* (O', P'), D as (P, O) with drawn set; P gets the rating returned for P and
\* O the rating returned for O, and these are what the roster then holds.
C3_ArgumentOrder ==
    /\ \A j \in 1..Len(calls) :
          LET c == calls[j] IN
          /\ c.result = "W" =>
                /\ c.rated = <<[first |-> c.p1_rating, second |-> c.p2_rating, drawn |-> FALSE]>>
                /\ c.p1_updated = rate_1vs1(c.p1_rating, c.p2_rating, FALSE)[1]
                /\ c.p2_updated = rate_1vs1(c.p1_rating, c.p2_rating, FALSE)[2]
          /\ c.result = "L" =>
                /\ c.rated = <<[first |-> c.p2_rating, second |-> c.p1_rating, drawn |-> FALSE]>>
                /\ c.p1_updated = rate_1vs1(c.p2_rating, c.p1_rating, FALSE)[2]
                /\ c.p2_updated = rate_1vs1(c.p2_rating, c.p1_rating, FALSE)[1]
          /\ c.result = "D" =>
                /\ c.rated = <<[first |-> c.p1_rating, second |-> c.p2_rating, drawn |-> TRUE]>>
                /\ c.p1_updated = rate_1vs1(c.p1_rating, c.p2_rating, TRUE)[1]
                /\ c.p2_updated = rate_1vs1(c.p1_rating, c.p2_rating, TRUE)[2]
    /\ calls # <<>> =>
          LET c == calls[Len(calls)] IN
          /\ player_stats[c.p2_id] = c.p2_updated
          /\ c.p1_id # c.p2_id => player_stats[c.p1_id] = c.p1_updated

\* a loss between two players of different ratings was rated
C3_Witness ==
    \E j \in 1..Len(calls) :
        /\ calls[j].result = "L"
        /\ calls[j].p1_rating # calls[j].p2_rating
        /\ calls[j].p1_id # calls[j].p2_id
        /\ calls[j].p1_updated.mu < calls[j].p1_rating.mu
        /\ calls[j].p2_updated.mu > calls[j].p2_rating.mu

RoundColumn == round_columns[rnd]

SentinelRows == {k \in 1..Len(column) : column[k] \in Sentinels}

Untouched(id) ==
    /\ id \in DOMAIN player_stats => player_stats[id] = ends[rnd].stats[id]
    /\ player_round_diffs[id][RoundColumn] = 0

\* C4 as stated: a player whose own cell of the round is a no-game sentinel
\* ends the round with the rating it started with and a delta of zero, and
\* the row causes no update call and no opponent lookup.
C4_Original ==
    WellFormedRound =>
        \A k \in SentinelRows :
            /\ Untouched(player_results[k].ID)
            /\ \A j \in 1..Len(calls) : calls[j].number # k
            /\ err_row # k

\* C4 (amended): the sentinel row itself causes no update call and no
\* opponent lookup, and the player ends the round with the rating it started
\* with and a delta of zero unless a game resolved from another row of the
\* round has the player as one of its two sides.
C4_ByeRowInert ==
    rnd >= 1 =>
        \A k \in SentinelRows :
            /\ \A j \in 1..Len(calls) : calls[j].number # k
            /\ err_row # k
            /\ (\A j \in 1..Len(calls) : ~Involves(calls[j], player_results[k].ID))
                  => Untouched(player_results[k].ID)

\* a round rated a game while the row of a third player, visited, held a bye
C4_Witness ==
    /\ rnd >= 1
    /\ err = ""
    /\ \E k \in SentinelRows :
          /\ k \in visited
          /\ column[k] = TokB
          /\ \E j \in 1..Len(calls) : calls[j].rated # <<>>
          /\ \A j \in 1..Len(calls) : ~Involves(calls[j], player_results[k].ID)
          /\ Untouched(player_results[k].ID)

\* the visited row k holds a game against a seat that no row has
MissingSeat(k) ==
    /\ parse_round_result(column[k]).err = ""
    /\ parse_round_result(column[k]).result_type # "X"
    /\ player_results[k].ID \in DOMAIN player_stats
    /\ parse_round_result(column[k]).opponent_number \notin DOMAIN player_lookup

\* C5: a cell that names an opponent seat without a row is reported and only
\* that game is skipped: the run goes on with the remaining rows and rounds.
C5_MissingSeatSkipped ==
    \A k \in visited : MissingSeat(k) => ~(pc = "failed" /\ err_row = k)

\* neither a sentinel nor a W, L or D followed by a number
InvalidToken(tok) ==
    /\ tok \notin Sentinels
    /\ ~(tok # <<>> /\ IsGameType(tok[1]) /\ PyInt(Tail(tok)).ok)

\* C6: a cell that is neither a win, loss or draw against a seat nor a
\* sentinel is reported as invalid and the game is skipped: the run goes on
\* and neither rating changes.
C6_InvalidTokenSkipped ==
    \A k \in visited :
        InvalidToken(column[k]) =>
            ~(pc = "failed" /\ err_row = k /\ err \in {"IndexError", "ValueError"})

\* C7 as stated: a player of the results table whom the roster lacks stops the
\* run during round processing, so the rounds never complete.
C7_Original ==
    (pc = "loop" /\ rnd >= 1 /\ rnd = Len(round_columns))
        => RowIds(player_results) \subseteq DOMAIN player_stats

\* the visited row k holds a game one of whose two sides the roster lacks
AbsentSide(k) ==
    /\ parse_round_result(column[k]).err = ""
    /\ parse_round_result(column[k]).result_type # "X"
    /\ \/ player_results[k].ID \notin DOMAIN player_stats
       \/ /\ parse_round_result(column[k]).opponent_number \in DOMAIN player_lookup
          /\ player_lookup[parse_round_result(column[k]).opponent_number] \notin DOMAIN player_stats

\* the delta the calls of the round left for id
RECURSIVE DeltaAfter(_, _, _)
DeltaAfter(cs, j, id) ==
    IF j = 0 THEN 0
    ELSE IF cs[j].p2_id = id THEN cs[j].p2_updated.mu - cs[j].p2_rating.mu
    ELSE IF cs[j].p1_id = id THEN cs[j].p1_updated.mu - cs[j].p1_rating.mu
    ELSE DeltaAfter(cs, j - 1, id)

\* the roster and the deltas are what the recorded calls of the round wrote
OnlyCallsWritten ==
    /\ DOMAIN player_stats = DOMAIN ends[rnd].stats
    /\ \A id \in DOMAIN player_stats :
          player_stats[id] = RosterBefore(ends[rnd].stats, calls, Len(calls) + 1, id)
    /\ \A id \in DOMAIN player_round_diffs :
          \A rc \in DOMAIN player_round_diffs[id] :
              player_round_diffs[id][rc] =
                  IF rc = RoundColumn THEN DeltaAfter(calls, Len(calls), id)
                  ELSE ends[rnd].diffs[id][rc]

\* C7 (amended): when a side of a game being resolved (the player of a row
\* not yet resolved, or the opponent its seat resolves to) is absent from the
\* roster, process_round stops the run with a fatal error before anything is
\* written for that game; a player of the results table whom the roster lacks
\* and whose rows resolve no game does not stop round processing, and the
\* run then fails in save_player_stats.
C7_AbsentPlayerFatal ==
    rnd >= 1 =>
        /\ \A k \in visited :
              AbsentSide(k) => (pc = "failed" /\ err = "Exception" /\ err_row = k)
        /\ err = "Exception" =>
              /\ \A j \in 1..Len(calls) : calls[j].number # err_row
              /\ OnlyCallsWritten
        /\ \A j \in 1..Len(calls) : Pair(calls[j]) \subseteq DOMAIN player_stats
        /\ ~(RowIds(player_results) \subseteq DOMAIN player_stats) => pc # "done"

\* a game was rated and written, then a row named an opponent the roster lacks
C7_Witness ==
    /\ rnd >= 1
    /\ pc = "failed"
    /\ err = "Exception"
    /\ calls # <<>>
    /\ player_results[err_row].ID \in DOMAIN player_stats
    /\ AbsentSide(err_row)

NonSentinelRows == {k \in 1..Len(column) : column[k] \notin Sentinels}

RatedCalls == {j \in 1..Len(calls) : calls[j].rated # <<>>}

\* C8 as stated: the pairings resolved in a round are at most half the rows
\* whose cell is not a no-game sentinel.
C8_Original ==
    WellFormedRound => 2 * Cardinality(RatedCalls) <= Cardinality(NonSentinelRows)

\* C8 (amended): the pairings resolved in a round are at most the rows whose
\* cell is not a no-game sentinel, and at most half of them when every game
\* of the round stands in both players' rows with mirrored cells.
C8_PairingsBounded ==
    /\ Len(calls) <= Cardinality(NonSentinelRows)
    /\ Consistent(column) => 2 * Len(calls) <= Cardinality(NonSentinelRows)

\* a consistent round with one game: one call for its two rows
C8_Witness ==
    /\ rnd >= 1
    /\ Consistent(column)
    /\ Cardinality(NonSentinelRows) = 2
    /\ Cardinality(RatedCalls) = 1

RECURSIVE Count(_, _)
Count(s, x) == IF s = <<>> THEN 0 ELSE (IF s[1] = x THEN 1 ELSE 0) + Count(Tail(s), x)

\* the number of headers that are x once stripped
StrippedCount(names, x) == Cardinality({k \in 1..Len(names) : Strip(names[k]) = x})

\* C9: the round columns are ordered by the integer their digits form, not
\* as strings: Rnd2, Rnd10, Rnd1 come back as Rnd1, Rnd2, Rnd10, whatever
\* the order of the headers.
C9_NumericRoundOrder ==
    pc = "returned" =>
        /\ \A i, j \in 1..Len(round_columns) :
              i < j => SortKey(round_columns[i]).val <= SortKey(round_columns[j]).val
        /\ \A h \in HeaderNames \ {RD} :
              Count(round_columns, Strip(h)) =
                  IF IsRoundHeader(Strip(h)) THEN StrippedCount(fieldnames, Strip(h)) ELSE 0
        /\ (Len(fieldnames) = 5 /\ SeqRange(fieldnames) =
                {Str_ID, Str_Rating, RoundHeader(1), RoundHeader(2), RoundHeader(10)})
              => round_columns = <<RoundHeader(1), RoundHeader(2), RoundHeader(10)>>

\* the header row ID, Rating, Rnd2, Rnd10, Rnd1 is loaded
C9_Witness ==
    /\ pc = "returned"
    /\ fieldnames = <<Str_ID, Str_Rating, RoundHeader(2), RoundHeader(10), RoundHeader(1)>>
    /\ round_columns = <<RoundHeader(1), RoundHeader(2), RoundHeader(10)>>

\* the Rating cell of the last row of the results file with this id
FileRatingOf(id) ==
    file_rows[CHOOSE k \in 1..Len(file_rows) :
                 file_rows[k].ID = id /\ \A j \in 1..Len(file_rows) : file_rows[j].ID = id => j <= k].Rating

\* C10: in the changed-players table the overall gain is the rounded final
\* skill minus the Rating the results table held for the player, and the
\* table has exactly one row per player identity of the results table.
C10_OverallGain ==
    /\ \A k \in 1..Len(changed_rows) :
          changed_rows[k].gain = PyRound(player_stats[changed_rows[k].ID].mu) - FileRatingOf(changed_rows[k].ID)
    /\ pc = "done" =>
          /\ \A id \in RowIds(file_rows) :
                Cardinality({k \in 1..Len(changed_rows) : changed_rows[k].ID = id}) = 1
          /\ \A k \in 1..Len(changed_rows) : changed_rows[k].ID \in RowIds(file_rows)

\* the table is written for a player whose final skill ends in a half point
\* and whose Rating in the results table is not the roster's starting skill
C10_Witness ==
    /\ pc = "done"
    /\ \E k \in 1..Len(changed_rows) :
          /\ player_stats[changed_rows[k].ID].mu % 2 = 1
          /\ 2 * FileRatingOf(changed_rows[k].ID) # ends[1].stats[changed_rows[k].ID].mu
          /\ changed_rows[k].gain # (player_stats[changed_rows[k].ID].mu \div 2) - FileRatingOf(changed_rows[k].ID)

\* a column of update.py's table in which every game stands in both players'
\* rows, mirrored, each row naming the other's player id, and every other
\* cell is -H- or -U-
U_Mirrored(col) ==
    /\ Cardinality(RowIds(player_results)) = Len(player_results)
    /\ \A k \in 1..Len(col) :
          \/ col[k] \in {TokH, TokU}
          \/ \E n \in 1..Len(col) :
                /\ n # k
                /\ \E t \in {"W", "L", "D"} :
                      /\ col[k] = <<t>> \o NatStr(player_results[n].ID)
                      /\ col[n] = <<Mirror(t)>> \o NatStr(player_results[k].ID)

\* C11: in update.py's process_round a game that stands in both players' rows
\* of a round (W against L, or D in both) is rated once: no pairing of two
\* players reaches update() from two rows of the same round.
C11_PairingOnceInUpdate ==
    (rnd >= 1 /\ err = "" /\ U_Mirrored(column)) =>
        \A i, j \in 1..Len(calls) : i < j => Pair(calls[i]) # Pair(calls[j])

\* no call of the round after call j has id as one of its sides
LastFor(j, id) == \A i \in (j + 1)..Len(calls) : ~Involves(calls[i], id)

\* C12: when process_round resolves a pairing, the delta it records for the
\* round for each of the two players is the skill the one update() call
\* returned for that player minus the skill read from the roster right before
\* the call; both deltas come from that one call.
C12_DeltaFromSameCall ==
    rnd >= 1 =>
        \A j \in 1..Len(calls) :
            /\ Len(calls[j].rated) <= 1
            /\ calls[j].p1_updated = update(calls[j].p1_rating, calls[j].p2_rating, calls[j].result).p1
            /\ calls[j].p2_updated = update(calls[j].p1_rating, calls[j].p2_rating, calls[j].result).p2
            /\ calls[j].p1_rating = RosterBefore(ends[rnd].stats, calls, j, calls[j].p1_id)
            /\ calls[j].p2_rating = RosterBefore(ends[rnd].stats, calls, j, calls[j].p2_id)
            /\ LastFor(j, calls[j].p2_id) =>
                  player_round_diffs[calls[j].p2_id][RoundColumn] =
                      calls[j].p2_updated.mu - calls[j].p2_rating.mu
            /\ (LastFor(j, calls[j].p1_id) /\ calls[j].p1_id # calls[j].p2_id) =>
                  player_round_diffs[calls[j].p1_id][RoundColumn] =
                      calls[j].p1_updated.mu - calls[j].p1_rating.mu

\* a win was rated whose two deltas are not opposite, and both are recorded
C12_Witness ==
    /\ rnd >= 1
    /\ \E j \in 1..Len(calls) :
          /\ calls[j].result = "W"
          /\ calls[j].p1_id # calls[j].p2_id
          /\ LastFor(j, calls[j].p1_id)
          /\ LastFor(j, calls[j].p2_id)
          /\ player_round_diffs[calls[j].p1_id][RoundColumn] > 0
          /\ player_round_diffs[calls[j].p2_id][RoundColumn] < 0
          /\ player_round_diffs[calls[j].p1_id][RoundColumn] + player_round_diffs[calls[j].p2_id][RoundColumn] # 0

\* the players that are a side of a pairing resolved in the round
Sides == UNION {Pair(calls[j]) : j \in 1..Len(calls)}

\* C13: one call of process_round changes the roster rating and the round's
\* delta only of players that are a side of a pairing resolved in that round:
\* every other roster entry, a roster player without a row included, keeps its
\* rating, its delta of the round stays the initial zero, the deltas of other
\* rounds are not touched and no roster entry is added or removed.
C13_Frame ==
    rnd >= 1 =>
        /\ DOMAIN player_stats = DOMAIN ends[rnd].stats
        /\ DOMAIN player_round_diffs = DOMAIN ends[rnd].diffs
        /\ \A id \in DOMAIN player_stats \ Sides : player_stats[id] = ends[rnd].stats[id]
        /\ \A id \in DOMAIN player_round_diffs :
              /\ DOMAIN player_round_diffs[id] = DOMAIN ends[rnd].diffs[id]
              /\ id \notin Sides => player_round_diffs[id][RoundColumn] = 0
              /\ \A rc \in DOMAIN player_round_diffs[id] \ {RoundColumn} :
                    player_round_diffs[id][rc] = ends[rnd].diffs[id][rc]

\* the second round rates a game between two players while a third player,
\* whose delta of the first round is not zero, and a roster player without a
\* row stay out of it
C13_Witness ==
    /\ rnd = 2
    /\ \E j \in 1..Len(calls) : calls[j].rated # <<>>
    /\ \E id \in RowIds(player_results) \ Sides :
          /\ id \in DOMAIN player_stats
          /\ player_round_diffs[id][round_columns[1]] # 0
          /\ player_stats[id] # ends[1].stats[id]
    /\ \E id \in DOMAIN player_stats \ RowIds(player_results) : id \notin Sides

\* C14: an opponent seat number N of an outcome token resolves to the
\* identity of the player in row N (counted from 1) of the results table; the
\* lookup from seat to identity is built once, before any round, and is the
\* same in every round.
C14_SeatIsRowPosition ==
    pc \notin {"load"} /\ round_columns # <<>> =>
        /\ DOMAIN player_lookup = 1..Len(file_rows)
        /\ \A n \in 1..Len(file_rows) : player_lookup[n] = file_rows[n].ID
        /\ \A j \in 1..Len(calls) :
              /\ parse_round_result(column[calls[j].number]).opponent_number \in 1..Len(file_rows)
              /\ calls[j].p2_id = file_rows[parse_round_result(column[calls[j].number]).opponent_number].ID

\* in the second round a row names seat 3 of a table whose third row is a
\* second row of player 1, and the game is rated against player 1
C14_Witness ==
    /\ rnd = 2
    /\ file_rows[3].ID = 1
    /\ \E j \in 1..Len(calls) :
          /\ calls[j].rated # <<>>
          /\ calls[j].number = 2
          /\ NamesSeat(column[2], 3)
          /\ calls[j].p2_id = 1

\* the players this round marked resolved before it reached row k: the
\* players of the rows above and the opponents of the games rated from them
SeenBefore(k) ==
    {player_results[j].ID : j \in 1..(k - 1)} \cup
    {calls[i].p2_id : i \in {i \in 1..Len(calls) : calls[i].number < k}}

\* the loop reached row k
Reached(k) == err_row = 0 \/ k <= err_row

\* C15: the set of resolved players is empty when a round starts and is not
\* carried over: a row is processed exactly when its player was not marked by
\* a row above it in this same round, so a player marked in round k is
\* processed again in round k+1; when a round ends, every player that has a
\* row is in the round's set.
C15_SeenPerRound ==
    rnd >= 1 =>
        /\ \A k \in 1..Len(player_results) :
              k \in visited <=> (Reached(k) /\ player_results[k].ID \notin SeenBefore(k))
        /\ 1 \in visited
        /\ err = "" =>
              seen_players = RowIds(player_results) \cup {calls[i].p2_id : i \in 1..Len(calls)}

\* in the second round the first row's game is rated between two players
\* whom the first round had marked and rated
C15_Witness ==
    /\ rnd = 2
    /\ err = ""
    /\ \E j \in 1..Len(calls) :
          /\ calls[j].number = 1
          /\ calls[j].rated # <<>>
          /\ calls[j].p1_id # calls[j].p2_id
          /\ ends[2].stats[calls[j].p1_id] # ends[1].stats[calls[j].p1_id]
          /\ ends[2].stats[calls[j].p2_id] # ends[1].stats[calls[j].p2_id]
    /\ seen_players = RowIds(player_results)

\* the headers of the file that start with a round prefix, RD itself left out
PrefixedHeaders == {h \in SeqRange(fieldnames) : IsRoundHeader(Strip(h)) /\ Strip(h) # RD}

\* C16 as stated: for any headers, RD is never returned as a round
\* identifier and every other header starting with Rnd, Round or RD is.
C16_Original ==
    (pc # "load" /\ HasColumn(fieldnames, Str_Rating)) =>
        /\ ~Contains(round_columns, RD)
        /\ \A h \in PrefixedHeaders : Contains(round_columns, Strip(h))

\* C16 (amended): whenever load_tournament_results returns, RD is not among
\* the round identifiers and every other header starting with Rnd, Round or
\* RD is, once per column of that name; it returns exactly when the file has
\* a header row, the digits of every such header form a number, at most one
\* column is named RD and a file with data rows has its Rating column, and
\* raises ValueError or KeyError otherwise.
C16_RDExcluded ==
    pc # "load" =>
        /\ pc = "returned" <=>
              /\ fieldnames \notin {None, <<>>}
              /\ \A h \in PrefixedHeaders : SortKey(Strip(h)).ok
              /\ StrippedCount(fieldnames, RD) <= 1
              /\ file_rows # <<>> => HasColumn(fieldnames, Str_Rating)
        /\ pc = "returned" =>
              /\ ~Contains(round_columns, RD)
              /\ \A h \in PrefixedHeaders :
                    Count(round_columns, Strip(h)) = StrippedCount(fieldnames, Strip(h))
              /\ \A k \in 1..Len(round_columns) : \E h \in PrefixedHeaders : round_columns[k] = Strip(h)
        /\ pc # "returned" => (pc = "failed" /\ err \in {"ValueError", "KeyError"} /\ round_columns = <<>>)

\* a file with the columns ID, Rating, RD, RD4 and Rnd1 is loaded
C16_Witness ==
    /\ pc = "returned"
    /\ fieldnames = <<Str_ID, Str_Rating, RD, RD \o NatStr(4), RoundHeader(1)>>
    /\ round_columns = <<RoundHeader(1), RD \o NatStr(4)>>

\* the sum of the deltas recorded for id in the first n rounds
RECURSIVE SumOfDiffs(_, _)
SumOfDiffs(id, n) ==
    IF n = 0 THEN 0 ELSE SumOfDiffs(id, n - 1) + player_round_diffs[id][round_columns[n]]

\* every round processed so far had a consistent column
ConsistentSoFar == \A r \in 1..rnd : Consistent(ends[r + 1].column)

\* no player has two rows in the results table
OneRowPerPlayer == Cardinality(RowIds(player_results)) = Len(player_results)

\* C17 as stated: when in every round each game stands in both players' rows
\* with mirrored tokens and every other token is a no-game sentinel, then,
\* once all rounds are processed, for every player of the results table (that
\* the roster holds) the deltas recorded over the rounds add up to the final
\* roster skill minus the skill the roster held before the first round.
C17_Original ==
    (pc = "loop" /\ rnd >= 1 /\ rnd = Len(round_columns) /\ ConsistentSoFar) =>
        \A id \in RowIds(player_results) \cap DOMAIN player_stats :
            SumOfDiffs(id, rnd) = player_stats[id].mu - ends[1].stats[id].mu

\* C17 (amended): when moreover no player has two rows in the table, the
\* deltas recorded for a player the roster holds add up to the final roster
\* skill minus the skill the roster held before the first round.  A player
\* with two rows can play two games in a round of a consistent table; the
\* delta of the second game then replaces the one of the first.
C17_DeltasSumToGain ==
    (pc = "loop" /\ rnd >= 1 /\ rnd = Len(round_columns) /\ ConsistentSoFar /\ OneRowPerPlayer) =>
        \A id \in RowIds(player_results) \cap DOMAIN player_stats :
            SumOfDiffs(id, rnd) = player_stats[id].mu - ends[1].stats[id].mu

\* a table of four players: both rounds are processed and consistent, the
\* last round had two games, and a player has a delta in each round
C17_Witness ==
    /\ pc = "loop"
    /\ rnd = 2
    /\ rnd = Len(round_columns)
    /\ ConsistentSoFar
    /\ OneRowPerPlayer
    /\ Len(player_results) = 4
    /\ Len(calls) = 2
    /\ \E id \in RowIds(player_results) :
          /\ player_round_diffs[id][round_columns[1]] # 0
          /\ player_round_diffs[id][round_columns[2]] # 0
          /\ SumOfDiffs(id, rnd) # 0

\* the calls of the round that have id as one of their sides
CallsOf(id) == {j \in 1..Len(calls) : Involves(calls[j], id)}

\* C18 as stated: for any results table, no player takes part in more than
\* one resolved game of a round, so each roster rating is replaced at most
\* once in a round.
C18_Original ==
    WellFormedRound => \A id \in DOMAIN player_stats : Cardinality(CallsOf(id)) <= 1

\* C18 (amended): within one round a player is the row side of at most one
\* resolved game, and takes part in at most one resolved game when no player
\* has two rows in the table and every game of the round stands in both
\* players' rows with mirrored tokens; for other tables a player already
\* resolved can be rated again as the opponent a later row names, since
\* process_round does not test the opponent against the resolved set.
C18_OneGamePerRound ==
    rnd >= 1 =>
        /\ \A i, j \in 1..Len(calls) : i < j => calls[i].p1_id # calls[j].p1_id
        /\ (Consistent(column) /\ OneRowPerPlayer) =>
              \A id \in DOMAIN player_stats : Cardinality(CallsOf(id)) <= 1

\* a consistent round of a table of four players in which two games were
\* rated and each player of a game is in that game only
C18_Witness ==
    /\ rnd >= 1
    /\ err = ""
    /\ Consistent(column)
    /\ OneRowPerPlayer
    /\ Len(calls) = 2
    /\ \E j \in 1..Len(calls) :
          /\ calls[j].rated # <<>>
          /\ calls[j].p1_id # calls[j].p2_id
          /\ CallsOf(calls[j].p1_id) = {j}
          /\ CallsOf(calls[j].p2_id) = {j}

\* the rows the loop reached whose player was already resolved
SkippedRows == {k \in 1..Len(column) : Reached(k) /\ k \notin visited}

\* cells to put in place of a skipped one: a bye, a blank cell and a win
\* against the first seat
OtherCells == {TokB, <<>>, <<"W">> \o NatStr(1)}

\* what the round leaves when it is run on the column col
RoundOutcome(col) ==
    LET s == process_round(player_results, ends[rnd].stats, player_lookup, ends[rnd].diffs,
                           RoundColumn, col, <<>>)
    IN  [stats |-> s.stats, diffs |-> s.diffs, err |-> s.err, calls |-> s.calls]

\* C19 as stated: the outcome applied to a pairing is taken from the row of
\* whichever of its two players comes first in table order.
C19_Original ==
    WellFormedRound =>
        \A j \in 1..Len(calls) :
            \A k \in 1..Len(player_results) :
                player_results[k].ID = calls[j].p2_id => calls[j].number < k

\* C19 (amended): the outcome applied to a pairing is taken only from the
\* row that resolves it: a row the loop reaches while its player is not yet
\* marked resolved, which is the first row of that player in the table; the
\* result and the opponent are those of that row's token, whatever the rows
\* of the opponent hold and wherever they stand.  Every later row of either
\* player is passed over, and the token of a row passed over is never parsed:
\* whatever it holds, contradicting or invalid, the ratings, the deltas and
\* the course of the round are the same.
C19_FirstRowDecides ==
    rnd >= 1 =>
        /\ \A j \in 1..Len(calls) :
              /\ calls[j].number \in visited
              /\ calls[j].p1_id = player_results[calls[j].number].ID
              /\ \A k \in 1..(calls[j].number - 1) : player_results[k].ID # calls[j].p1_id
              /\ calls[j].result = parse_round_result(column[calls[j].number]).result_type
              /\ calls[j].p2_id = player_lookup[parse_round_result(column[calls[j].number]).opponent_number]
              /\ \A k \in (calls[j].number + 1)..Len(player_results) :
                    (Reached(k) /\ Involves(calls[j], player_results[k].ID)) => k \in SkippedRows
        /\ all_rows = <<>> => \A k \in SkippedRows :
              /\ player_results[k].ID \in SeenBefore(k)
              /\ \A tok \in OtherCells :
                    RoundOutcome([column EXCEPT ![k] = tok]) =
                        [stats |-> player_stats, diffs |-> player_round_diffs,
                         err |-> err, calls |-> calls]

\* row a rated its win against a later row whose own cell claims the win
\* too; that row was passed over and the loser's rating went down
C19_Witness ==
    /\ rnd >= 1
    /\ err = ""
    /\ \E j \in 1..Len(calls) :
          \E b \in SkippedRows :
              /\ calls[j].result = "W"
              /\ calls[j].number < b
              /\ NamesSeat(column[calls[j].number], b)
              /\ column[b] = <<"W">> \o NatStr(calls[j].number)
              /\ calls[j].p2_id = player_results[b].ID
              /\ calls[j].p1_id # calls[j].p2_id
              /\ LastFor(j, calls[j].p2_id)
              /\ player_stats[calls[j].p2_id].mu < ends[rnd].stats[calls[j].p2_id].mu

====
